---- MODULE Spec2Model ----
(***************************************************************************)
(* Model of bigip/resource_bigip_ltm_node.go: the create / read / exists / *)
(* update / delete handlers of the bigip_ltm_node resource, the local      *)
(* resource data d they work on, and the remote node store they call.      *)
(*                                                                         *)
(* Strings the handlers match with regular expressions (addresses, FQDN    *)
(* names) are sequences of one-character strings, so that the matching is  *)
(* computed character by character.  Identifiers (node names) are plain    *)
(* strings; the empty identifier is "".                                    *)
(***************************************************************************)
EXTENDS Integers, Sequences, FiniteSets, TLC

VARIABLES d, remote, last, createdOk

vars == <<d, remote, last, createdOk>>

(***************************************************************************)
(* Bounds of the model.                                                    *)
(***************************************************************************)
\* Largest number of entries of the "fqdn" list of a configuration.
MaxFqdn == 2

(***************************************************************************)
(* Characters and the two regular expressions.                             *)
(***************************************************************************)
Digits == {"0", "1", "2", "3", "4", "5", "6", "7", "8", "9"}

\* [0-9]{1,3} starting at index i of s: the indices right after each way to
\* take one to three digits.
DigitRuns(s, i) ==
    { j \in (i + 1)..(i + 3) :
        /\ j <= Len(s) + 1
        /\ \A k \in i..(j - 1) : s[k] \in Digits }

\* The separator of an octet group: "." unescaped in the create/update
\* pattern (any character), "\." in the read pattern (a literal dot).
SepMatches(c, escaped) == IF escaped THEN c = "." ELSE TRUE

\* (?:[0-9]{1,3}SEP) starting at index i: the indices right after it.
OctetSep(s, i, escaped) ==
    { j + 1 : j \in { k \in DigitRuns(s, i) :
                        k <= Len(s) /\ SepMatches(s[k], escaped) } }

\* ((?:[0-9]{1,3}SEP){3}[0-9]{1,3}) starting at index i: the indices right
\* after each way to match it.
QuadEnds(s, i, escaped) ==
    LET p1 == OctetSep(s, i, escaped)
        p2 == UNION { OctetSep(s, j, escaped) : j \in p1 }
        p3 == UNION { OctetSep(s, j, escaped) : j \in p2 }
    IN  UNION { DigitRuns(s, j) : j \in p3 }

Max(S) == CHOOSE x \in S : \A y \in S : y <= x
Min(S) == CHOOSE x \in S : \A y \in S : x <= y

\* r.MatchString(address) for r = "^((?:[0-9]{1,3}.){3}[0-9]{1,3})|(.*:.*)$":
\* an alternation of "^(quad with any separator)", anchored at the start only,
\* and "(.*:.*)$", which any string holding a ':' matches.
MatchString(address) ==
    \/ QuadEnds(address, 1, FALSE) # {}
    \/ \E k \in 1..Len(address) : address[k] = ":"

\* (?:\%\d+)? starting at index i: greedy, the index right after it.
RouteDomainEnd(s, i) ==
    IF i <= Len(s) /\ s[i] = "%"
    THEN LET ends == { j \in (i + 2)..(Len(s) + 1) :
                         \A k \in (i + 1)..(j - 1) : s[k] \in Digits }
         IN  IF ends = {} THEN i ELSE Max(ends)
    ELSE i

\* regex.FindStringSubmatch(s) for
\* regex = `((?:[0-9]{1,3}\.){3}[0-9]{1,3})(?:\%\d+)?`: the leftmost match, its
\* quantifiers greedy; <<whole match, group 1>>, or <<>> (nil) when nothing
\* matches.  Go's address[0], address[1] are elements 1 and 2 here.
FindStringSubmatch(s) ==
    LET starts == { i \in 1..Len(s) : QuadEnds(s, i, TRUE) # {} }
    IN  IF starts = {} THEN <<>>
        ELSE LET i == Min(starts)
                 e == Max(QuadEnds(s, i, TRUE))
             IN  << SubSeq(s, i, RouteDomainEnd(s, e) - 1),
                    SubSeq(s, i, e - 1) >>


(***************************************************************************)
(* Values.                                                                 *)
(***************************************************************************)
\* Node names the configurations use, and the identifiers an import may
\* pass through ("node9" is a name no configuration creates).
Names == {"node1"}
Ids == Names \cup {"node9"}

Empty == <<>>

Addr_10_0_0_5 == <<"1", "0", ".", "0", ".", "0", ".", "5">>
Addr_10_0_0_5_rd2 == <<"1", "0", ".", "0", ".", "0", ".", "5", "%", "2">>
Addr_192_168_1_10_rd12 ==
    <<"1", "9", "2", ".", "1", "6", "8", ".", "1", ".", "1", "0", "%", "1", "2">>
Addr_v6_loopback == <<":", ":", "1">>
Addr_foo_example_com ==
    <<"f", "o", "o", ".", "e", "x", "a", "m", "p", "l", "e", ".", "c", "o", "m">>
Addr_1234567_com == <<"1", "2", "3", "4", "5", "6", "7", ".", "c", "o", "m">>
Addr_1_2_3_4567 == <<"1", ".", "2", ".", "3", ".", "4", "5", "6", "7">>
Addr_any6 == <<"a", "n", "y", "6">>

\* The addresses a configuration may give.
Addresses ==
    { Addr_10_0_0_5, Addr_v6_loopback, Addr_foo_example_com, Addr_1234567_com,
      Addr_1_2_3_4567 }

\* The optional fields of a configuration: the schema's defaults (lines
\* 38-72), and one setting that differs from them in every field.
DefaultTuning ==
    [ rate_limit |-> "", connection_limit |-> 0, dynamic_ratio |-> 0,
      ratio |-> 1, monitor |-> "", state |-> "user-up" ]
CustomTuning ==
    [ rate_limit |-> "100", connection_limit |-> 10, dynamic_ratio |-> 5,
      ratio |-> 3, monitor |-> "/Common/icmp", state |-> "user-down" ]
Tunings == { DefaultTuning, CustomTuning }

\* An entry of the "fqdn" list: the schema's defaults (lines 88-105), and
\* one entry that differs from them in every field.
DefaultFqdn ==
    [ interval |-> "3600", down_interval |-> 5, autopopulate |-> "disabled" ]
CustomFqdn ==
    [ interval |-> "30", down_interval |-> 2, autopopulate |-> "enabled" ]
\* The "fqdn" lists of zero to MaxFqdn entries, custom and default entries
\* alternating.
FqdnLists ==
    { [i \in 1..n |-> IF i % 2 = 1 THEN CustomFqdn ELSE DefaultFqdn] :
        n \in 0..MaxFqdn }

\* The resource data of a resource that is not in the state.
NoData ==
    [ id |-> "", name |-> "", address |-> Empty,
      rate_limit |-> "", connection_limit |-> 0, dynamic_ratio |-> 0,
      ratio |-> 1, monitor |-> "", state |-> "user-up", fqdn |-> <<>> ]

\* The configurations the host may hand to create.
Configs ==
    { [ NoData EXCEPT !.name = n, !.address = a,
          !.rate_limit = t.rate_limit, !.connection_limit = t.connection_limit,
          !.dynamic_ratio = t.dynamic_ratio, !.ratio = t.ratio,
          !.monitor = t.monitor, !.state = t.state, !.fqdn = f ] :
        n \in Names, a \in Addresses, t \in Tunings, f \in FqdnLists }

(***************************************************************************)
(* The remote API client (github.com/f5devcentral/go-bigip) and the node   *)
(* store behind it.  remote[n] is <<>> when the device holds no node n     *)
(* (GetNode's nil), <<node>> when it does.                                 *)
(***************************************************************************)
NoFqdn == [ interval |-> "", down_interval |-> 0, autopopulate |-> "" ]

\* The node a create call asks the device to make.
NodeOf(address, fqdnName, rateLimit, connLimit, dynRatio, ratio, monitor, state, fqdn) ==
    [ Address |-> address, FQDNName |-> fqdnName, RateLimit |-> rateLimit,
      ConnectionLimit |-> connLimit, DynamicRatio |-> dynRatio,
      Ratio |-> ratio, Monitor |-> monitor, State |-> state, FQDN |-> fqdn ]

\* client.GetNode(name) when the round trip succeeds.
GetNode(rem, name) == IF name \in DOMAIN rem THEN rem[name] ELSE <<>>

\* The device after a successful CreateNode / CreateFQDNNode: it stores the
\* node as given; an FQDN node reports the address "any6" beside its name.
StoreNode(rem, name, node) ==
    IF name \in DOMAIN rem
    THEN [rem EXCEPT ![name] =
            << IF node.FQDNName # Empty
               THEN [node EXCEPT !.Address = Addr_any6] ELSE node >>]
    ELSE rem

\* The device after a successful ModifyNode(name, node): the five fields of
\* the payload replace those of the stored node.
ApplyModify(rem, name, node) ==
    IF name \in DOMAIN rem /\ rem[name] # <<>>
    THEN [rem EXCEPT ![name] =
            << [ rem[name][1] EXCEPT !.ConnectionLimit = node.ConnectionLimit,
                                      !.DynamicRatio = node.DynamicRatio,
                                      !.Monitor = node.Monitor,
                                      !.RateLimit = node.RateLimit,
                                      !.State = node.State ] >>]
    ELSE rem

\* The device after a successful DeleteNode(name).
RemoveNode(rem, name) ==
    IF name \in DOMAIN rem THEN [rem EXCEPT ![name] = <<>>] ELSE rem

\* Nodes other parties may leave on the device: addresses with a route
\* domain, an FQDN node that also reports an IPv4 address, an IPv6 node.
RemoteSamples ==
    { NodeOf(Addr_10_0_0_5_rd2, Empty, "", 0, 0, 1, "", "user-up", NoFqdn),
      NodeOf(Addr_192_168_1_10_rd12, Empty, "100", 10, 5, 3, "/Common/icmp",
             "user-down", NoFqdn),
      NodeOf(Addr_10_0_0_5, Addr_foo_example_com, "100", 10, 5, 3,
             "/Common/icmp", "user-down", DefaultFqdn),
      NodeOf(Addr_v6_loopback, Empty, "", 0, 0, 1, "", "user-up", NoFqdn) }

\* A remote call as the handlers' log records it.
Call(fn, name, node, ok) == [ fn |-> fn, name |-> name, node |-> node, ok |-> ok ]

(***************************************************************************)
(* The host's resource data.                                               *)
(***************************************************************************)
\* What d.Get may give for a key the schema does not declare: the nil
\* interface value (the type assertion on it then panics) or the zero string.
UndeclaredReads == {"<nil>", ""}

\* d.Get(prefix + "." + key) on entry `entry` of the "fqdn" list.
Get(entry, key, undeclared) ==
    IF key \in DOMAIN entry THEN entry[key] ELSE undeclared

\* What a handler leaves behind: the resource data, the device, the remote
\* calls it issued, how it ended ("ok": nil error, "error": an error
\* returned, "panic": a run-time panic), GetNode's reply inside read/exists
\* ("none", "error", "notfound", "found") and exists' boolean.
Outcome(dd, rem, calls, result, reply, ret) ==
    [ d |-> dd, remote |-> rem, calls |-> calls, result |-> result,
      reply |-> reply, ret |-> ret ]

(***************************************************************************)
(* resourceBigipLtmNodeRead, lines 172-212.                                *)
(***************************************************************************)
\* Lines 189-200: the address read writes for a node the device returned;
\* <<>> stands for address[1] indexing a nil match (the panic).
\* A variant that keeps the whole match, address[0], route domain included.
ReadAddressWholeMatch(node) ==
    IF node.FQDNName # Empty
    THEN <<node.FQDNName>>
    ELSE LET address == FindStringSubmatch(node.Address)
         IN  IF Len(address) < 2 THEN <<>> ELSE <<address[1]>>

ReadAddress(node) ==
    IF node.FQDNName # Empty
    THEN <<node.FQDNName>>
    ELSE LET address == FindStringSubmatch(node.Address)
         IN  IF Len(address) < 2 THEN <<>> ELSE <<address[2]>>

NodeRead(dd, rem, calls, getOk) ==
    LET name == dd.id
        node == GetNode(rem, name)
        log == Append(calls, Call("GetNode", name, <<>>, getOk))
    IN  IF ~getOk
        THEN Outcome(dd, rem, log, "error", "error", FALSE)
        ELSE IF node = <<>>
        THEN Outcome([dd EXCEPT !.id = ""], rem, log, "ok", "notfound", FALSE)
        ELSE LET address == ReadAddress(node[1])
             IN  IF address = <<>>
                 THEN Outcome(dd, rem, log, "panic", "found", FALSE)
                 ELSE Outcome(
                        [dd EXCEPT !.address = address[1],
                                   !.name = name,
                                   !.monitor = node[1].Monitor,
                                   !.rate_limit = node[1].RateLimit,
                                   !.connection_limit = node[1].ConnectionLimit,
                                   !.dynamic_ratio = node[1].DynamicRatio],
                        rem, log, "ok", "found", FALSE)

(***************************************************************************)
(* resourceBigipLtmNodeExists, lines 214-232.                              *)
(***************************************************************************)
\* A variant that leaves out d.SetId("") of line 228.
NodeExistsKeepsId(dd, rem, getOk) ==
    LET name == dd.id
        node == GetNode(rem, name)
        log == <<Call("GetNode", name, <<>>, getOk)>>
    IN  IF ~getOk
        THEN Outcome(dd, rem, log, "error", "error", FALSE)
        ELSE IF node = <<>>
        THEN Outcome(dd, rem, log, "ok", "notfound", FALSE)
        ELSE Outcome(dd, rem, log, "ok", "found", node # <<>>)

NodeExists(dd, rem, getOk) ==
    LET name == dd.id
        node == GetNode(rem, name)
        log == <<Call("GetNode", name, <<>>, getOk)>>
    IN  IF ~getOk
        THEN Outcome(dd, rem, log, "error", "error", FALSE)
        ELSE IF node = <<>>
        THEN Outcome([dd EXCEPT !.id = ""], rem, log, "ok", "notfound", FALSE)
        ELSE Outcome(dd, rem, log, "ok", "found", node # <<>>)

(***************************************************************************)
(* resourceBigipLtmNodeCreate, lines 113-170.                              *)
(***************************************************************************)
\* Lines 141-160: the loop over the "fqdn" list from entry i on.  acc holds
\* the device, the calls so far, err (TRUE: the last call failed) and panic.
RECURSIVE CreateFqdnLoop(_, _, _, _, _)
CreateFqdnLoop(dd, i, oks, undeclared, acc) ==
    IF i > Len(dd.fqdn) THEN acc
    ELSE LET entry == dd.fqdn[i]
             interval == Get(entry, "interval", undeclared)
             down_interval == Get(entry, "down_interval", undeclared)
             auto_populate == Get(entry, "auto_populate", undeclared)
             node == NodeOf(Empty, dd.address, dd.rate_limit,
                            dd.connection_limit, dd.dynamic_ratio, dd.ratio,
                            dd.monitor, dd.state,
                            [ interval |-> interval,
                              down_interval |-> down_interval,
                              autopopulate |-> auto_populate ])
         IN  IF auto_populate = "<nil>"
             THEN [acc EXCEPT !.panic = TRUE]
             ELSE CreateFqdnLoop(dd, i + 1, oks, undeclared,
                    [ remote |-> IF oks[i]
                                 THEN StoreNode(acc.remote, dd.name, node)
                                 ELSE acc.remote,
                      calls |-> Append(acc.calls,
                                  Call("CreateFQDNNode", dd.name, node, oks[i])),
                      err |-> ~oks[i],
                      panic |-> FALSE ])

\* Lines 129-161: the create calls.
CreateCalls(dd, rem, oks, undeclared) ==
    IF MatchString(dd.address)
    THEN LET node == NodeOf(dd.address, Empty, dd.rate_limit,
                            dd.connection_limit, dd.dynamic_ratio, dd.ratio,
                            dd.monitor, dd.state, NoFqdn)
         IN  [ remote |-> IF oks[1] THEN StoreNode(rem, dd.name, node) ELSE rem,
               calls |-> <<Call("CreateNode", dd.name, node, oks[1])>>,
               err |-> ~oks[1],
               panic |-> FALSE ]
    ELSE CreateFqdnLoop(dd, 1, oks, undeclared,
           [ remote |-> rem, calls |-> <<>>, err |-> FALSE, panic |-> FALSE ])

NodeCreate(dd, rem, oks, undeclared, getOk) ==
    LET c == CreateCalls(dd, rem, oks, undeclared)
    IN  IF c.panic
        THEN Outcome(dd, c.remote, c.calls, "panic", "none", FALSE)
        ELSE IF c.err
        THEN Outcome(dd, c.remote, c.calls, "error", "none", FALSE)
        ELSE NodeRead([dd EXCEPT !.id = dd.name], c.remote, c.calls, getOk)

(***************************************************************************)
(* resourceBigipLtmNodeUpdate, lines 234-268.                              *)
(***************************************************************************)
\* A variant that calls ModifyNode for every address kind.
NodeUpdateAlwaysModifies(dd, rem, modOk, getOk) ==
    LET name == dd.id
        node == NodeOf(IF MatchString(dd.address) THEN dd.address ELSE Empty,
                       Empty, dd.rate_limit, dd.connection_limit,
                       dd.dynamic_ratio, 0, dd.monitor, dd.state, NoFqdn)
        log == <<Call("ModifyNode", name, node, modOk)>>
    IN  IF ~modOk
        THEN Outcome(dd, rem, log, "error", "none", FALSE)
        ELSE NodeRead(dd, ApplyModify(rem, name, node), log, getOk)

NodeUpdate(dd, rem, modOk, getOk) ==
    LET name == dd.id
        address == dd.address
    IN  IF MatchString(address)
        THEN NodeRead(dd, rem, <<>>, getOk)
        ELSE LET node == NodeOf(Empty, Empty, dd.rate_limit,
                                dd.connection_limit, dd.dynamic_ratio, 0,
                                dd.monitor, dd.state, NoFqdn)
                 log == <<Call("ModifyNode", name, node, modOk)>>
             IN  IF ~modOk
                 THEN Outcome(dd, rem, log, "error", "none", FALSE)
                 ELSE NodeRead(dd, ApplyModify(rem, name, node), log, getOk)

(***************************************************************************)
(* resourceBigipLtmNodeDelete, lines 270-283.                              *)
(***************************************************************************)
\* A variant that leaves out d.SetId("") of line 281.
NodeDeleteKeepsId(dd, rem, delOk) ==
    LET name == dd.id
        log == <<Call("DeleteNode", name, <<>>, delOk)>>
    IN  IF ~delOk
        THEN Outcome(dd, rem, log, "error", "none", FALSE)
        ELSE Outcome(dd, RemoveNode(rem, name), log, "ok", "none", FALSE)

NodeDelete(dd, rem, delOk) ==
    LET name == dd.id
        log == <<Call("DeleteNode", name, <<>>, delOk)>>
    IN  IF ~delOk
        THEN Outcome(dd, rem, log, "error", "none", FALSE)
        ELSE Outcome([dd EXCEPT !.id = ""], RemoveNode(rem, name), log,
                     "ok", "none", FALSE)

(***************************************************************************)
(* The state machine: one action per entry point the host may invoke.      *)
(* last records the latest invocation: the entry point, the configuration  *)
(* create was given (cfg; NoData for the other entry points, which work on *)
(* d) and its outcome.  createdOk tells whether the resource of the host's *)
(* state, or the one the latest delete removed, got its identifier from a  *)
(* create that returned nil.                                               *)
(***************************************************************************)
Record(op, cfg, o) ==
    [ op |-> op, cfg |-> cfg, calls |-> o.calls, result |-> o.result,
      reply |-> o.reply, ret |-> o.ret ]

\* The host after a handler returned: a handler that panics takes the plugin
\* process down, and the host keeps the resource data it had before the
\* invocation; a resource whose identifier is empty is dropped from the
\* host's state.  The device keeps what the calls did.
Finish(op, cfg, o) ==
    /\ d' = IF o.result = "panic" THEN d
            ELSE IF o.d.id = "" THEN NoData
            ELSE o.d
    /\ remote' = o.remote
    /\ last' = Record(op, cfg, o)
    /\ createdOk' = IF o.result = "panic" THEN createdOk
                    ELSE IF op = "create" THEN o.result = "ok" /\ o.d.id # ""
                    ELSE IF op = "delete" THEN createdOk
                    ELSE createdOk /\ o.d.id # ""

Init ==
    /\ d = NoData
    /\ remote = [n \in Names |-> <<>>]
    /\ last = Record("init", NoData,
                     Outcome(NoData, remote, <<>>, "ok", "none", FALSE))
    /\ createdOk = FALSE

\* The host creates a resource that is not in its state.
resourceBigipLtmNodeCreate ==
    /\ d.id = ""
    /\ \E cfg \in Configs, undeclared \in UndeclaredReads, getOk \in BOOLEAN :
          \E oks \in [1..Max({1, Len(cfg.fqdn)}) -> BOOLEAN] :
              Finish("create", cfg,
                     NodeCreate(cfg, remote, oks, undeclared, getOk))

resourceBigipLtmNodeRead ==
    \E getOk \in BOOLEAN :
        Finish("read", NoData, NodeRead(d, remote, <<>>, getOk))

resourceBigipLtmNodeExists ==
    \E getOk \in BOOLEAN :
        Finish("exists", NoData, NodeExists(d, remote, getOk))

\* The host updates a resource of its state with new optional fields; name
\* and address are ForceNew and stay.
resourceBigipLtmNodeUpdate ==
    /\ d.id # ""
    /\ \E t \in Tunings, modOk \in BOOLEAN, getOk \in BOOLEAN :
          LET din == [d EXCEPT !.rate_limit = t.rate_limit,
                               !.connection_limit = t.connection_limit,
                               !.dynamic_ratio = t.dynamic_ratio,
                               !.ratio = t.ratio,
                               !.monitor = t.monitor,
                               !.state = t.state]
          IN  Finish("update", NoData, NodeUpdate(din, remote, modOk, getOk))

resourceBigipLtmNodeDelete ==
    /\ d.id # ""
    /\ \E delOk \in BOOLEAN :
          Finish("delete", NoData, NodeDelete(d, remote, delOk))

\* schema.ImportStatePassthrough, lines 19-21: the identifier given on
\* import becomes the resource's identifier.
ImportStatePassthrough ==
    /\ d.id = ""
    /\ \E id \in Ids :
          Finish("import", NoData,
                 Outcome([NoData EXCEPT !.id = id], remote, <<>>, "ok", "none",
                         FALSE))

\* Another party changes the device: it leaves a node under a name, or
\* removes the node.
RemoteDrift ==
    \E n \in Names, node \in {<<>>} \cup { <<x>> : x \in RemoteSamples } :
        /\ remote[n] # node
        /\ remote' = [remote EXCEPT ![n] = node]
        /\ last' = Record("drift", NoData,
                          Outcome(d, remote', <<>>, "ok", "none", FALSE))
        /\ UNCHANGED <<d, createdOk>>

Next ==
    \/ resourceBigipLtmNodeCreate
    \/ resourceBigipLtmNodeRead
    \/ resourceBigipLtmNodeExists
    \/ resourceBigipLtmNodeUpdate
    \/ resourceBigipLtmNodeDelete
    \/ ImportStatePassthrough
    \/ RemoteDrift

Spec == Init /\ [][Next]_vars

(***************************************************************************)
(* Vocabulary of the properties.                                           *)
(***************************************************************************)
\* The create calls of the latest invocation's log.
CallsOf(fn) == { i \in 1..Len(last.calls) : last.calls[i].fn = fn }

\* The identifier the latest read or exists fetched, and the node the device
\* returned for it (when GetNode's reply was "found").
FetchedName == last.calls[Len(last.calls)].name
FetchedNode == remote[FetchedName][1]

\* An IPv4 dotted quad: four runs of one to three digits, dots between them.
IsDottedQuad(s) ==
    LET dots == { i \in 1..Len(s) : s[i] = "." }
        cuts == {0, Len(s) + 1} \cup dots
    IN  /\ Cardinality(dots) = 3
        /\ \A i \in 1..Len(s) : s[i] \in Digits \cup {"."}
        /\ \A b \in cuts \ {Len(s) + 1} :
              Min({ c \in cuts : c > b }) - b - 1 \in 1..3

\* The static pattern as the specification gives it: a dotted quad at the
\* start of the address (its dots literal), or a ':' anywhere.
SpecStatic(address) ==
    \/ \E n \in 1..Len(address) : IsDottedQuad(SubSeq(address, 1, n))
    \/ \E k \in 1..Len(address) : address[k] = ":"

\* s up to its first '%' (all of s when it holds none), and the rest.
BeforePercent(s) ==
    LET ps == { i \in 1..Len(s) : s[i] = "%" }
    IN  IF ps = {} THEN s ELSE SubSeq(s, 1, Min(ps) - 1)
AfterPercent(s) == SubSeq(s, Len(BeforePercent(s)) + 2, Len(s))

\* A remote address of the form <dotted quad> or <dotted quad>%<int>.
IsQuadWithRouteDomain(s) ==
    /\ IsDottedQuad(BeforePercent(s))
    /\ \/ Len(BeforePercent(s)) = Len(s)
       \/ /\ AfterPercent(s) # <<>>
          /\ \A i \in 1..Len(AfterPercent(s)) : AfterPercent(s)[i] \in Digits

\* The reference normalization of a remote node's address.
ReferenceAddress(node) ==
    IF node.FQDNName # Empty THEN node.FQDNName ELSE BeforePercent(node.Address)

\* The FQDN create call the configuration's entry i asks for.
ExpectedFqdnNode(cfg, i) ==
    NodeOf(Empty, cfg.address, cfg.rate_limit, cfg.connection_limit,
           cfg.dynamic_ratio, cfg.ratio, cfg.monitor, cfg.state,
           [ interval |-> cfg.fqdn[i].interval,
             down_interval |-> cfg.fqdn[i].down_interval,
             autopopulate |-> cfg.fqdn[i].autopopulate ])

(***************************************************************************)
(* The properties.                                                         *)
(***************************************************************************)
\* C1: create routes by address kind: an address that is a dotted quad or
\* holds a ':' gets the static create call and no FQDN create call; any other
\* address (a domain name) gets the FQDN create call and no static one.
C1_CreateRoutesByAddressKind ==
    last.op = "create" =>
        IF SpecStatic(last.cfg.address)
        THEN CallsOf("CreateNode") # {} /\ CallsOf("CreateFQDNNode") = {}
        ELSE CallsOf("CreateFQDNNode") # {} /\ CallsOf("CreateNode") = {}

\* C2: whenever create returns without error, the resource's identifier is
\* the configuration's name.
C2_CreatedIdIsName ==
    (last.op = "create" /\ last.result = "ok") => d.id = last.cfg.name

\* C3: a create that classified the address as static and whose create call
\* succeeded, followed by the read of the node the device stored as given,
\* ends without error and leaves the local address equal to the address
\* created.
C3_StaticRoundTrip ==
    ( /\ last.op = "create"
      /\ MatchString(last.cfg.address)
      /\ \E i \in CallsOf("CreateNode") : last.calls[i].ok
      /\ last.reply = "found" )
    => (last.result = "ok" /\ d.address = last.cfg.address)

\* C4: when read gets a node whose FQDN name is non-empty, or whose address
\* is a dotted quad with an optional route domain suffix, the local address
\* becomes the reference normalization: the FQDN name if non-empty, else the
\* address without its '%<int>' suffix.
C4_ReadNormalizesAddress ==
    ( /\ last.op \in {"read", "create", "update"}
      /\ last.reply = "found"
      /\ \/ FetchedNode.FQDNName # Empty
         \/ IsQuadWithRouteDomain(FetchedNode.Address) )
    => (last.result = "ok" /\ d.address = ReferenceAddress(FetchedNode))

\* C4's case: a read of a node whose address carries a route domain.
C4_Witness ==
    /\ last.op = "read"
    /\ last.reply = "found"
    /\ FetchedNode.FQDNName = Empty
    /\ FetchedNode.Address = Addr_10_0_0_5_rd2
    /\ d.address = Addr_10_0_0_5

\* C5: read or exists of an identifier the device does not know returns
\* without error (exists FALSE) and clears the identifier; read and exists
\* leave the device alone; and a further read or exists whose fetch does not
\* fail again returns without error with the identifier empty.
C5_NotFoundIdempotent ==
    /\ [](( last.op \in {"read", "exists"} /\ last.reply = "notfound" )
            => ( last.result = "ok" /\ d.id = "" /\ last.ret = FALSE ))
    /\ [][ last'.op \in {"read", "exists"} => remote' = remote ]_vars
    /\ [][ ( /\ last.op \in {"read", "exists"}
             /\ last.reply = "notfound"
             /\ last'.op \in {"read", "exists"}
             /\ last'.reply # "error" )
           => ( /\ last'.reply = "notfound"
                /\ last'.result = "ok"
                /\ d'.id = "" ) ]_vars

\* C5's case: a read of a non-empty identifier the device does not know.
C5_Witness ==
    /\ last.op = "read"
    /\ last.reply = "notfound"
    /\ FetchedName # ""

\* C6: a delete that returns without error leaves no node of that name on
\* the device and an empty identifier, and the next read, if its fetch does
\* not fail, reports not-found without error; a delete whose call fails
\* returns the error and keeps the identifier.
C6_DeleteThenNotFound ==
    /\ [](( last.op = "delete" /\ last.result = "ok" )
            => ( GetNode(remote, last.calls[1].name) = <<>> /\ d.id = "" ))
    /\ [](( last.op = "delete" /\ ~last.calls[1].ok )
            => ( last.result = "error" /\ d.id = last.calls[1].name ))
    /\ [][ ( /\ last.op = "delete"
             /\ last.result = "ok"
             /\ last'.op = "read"
             /\ last'.reply # "error" )
           => ( /\ last'.reply = "notfound"
                /\ last'.result = "ok"
                /\ d'.id = "" ) ]_vars

\* C6's case: the delete, without error, of a node a create made.
C6_Witness ==
    /\ last.op = "delete"
    /\ last.result = "ok"
    /\ createdOk

C8_UnparsedAddressIsError ==
    ( /\ last.reply = "found"
      /\ last.op \in {"read", "create", "update"}
      /\ FetchedNode.FQDNName = Empty
      /\ FindStringSubmatch(FetchedNode.Address) = <<>> )
    => last.result = "error"

\* C9: update issues a modify call exactly when the address is not
\* classified static by create's pattern; for a static address it leaves the
\* device as it is and re-reads the node; a failed modify call makes update
\* return the error, and otherwise update re-reads the node.
C9_UpdateModifiesOnlyFqdn ==
    [][ last'.op = "update" =>
          LET mods == { i \in 1..Len(last'.calls) :
                          last'.calls[i].fn = "ModifyNode" }
              gets == { i \in 1..Len(last'.calls) :
                          last'.calls[i].fn = "GetNode" }
          IN  /\ (mods # {}) <=> ~MatchString(d.address)
              /\ MatchString(d.address) => (remote' = remote /\ gets # {})
              /\ \A i \in mods :
                    IF last'.calls[i].ok
                    THEN gets # {}
                    ELSE last'.result = "error" /\ gets = {} ]_vars

\* C9's case: an update of a static node returned without error and the
\* device still holds another state than the one configured.
C9_Witness ==
    /\ last.op = "update"
    /\ last.result = "ok"
    /\ last.reply = "found"
    /\ CallsOf("ModifyNode") = {}
    /\ d.state # FetchedNode.State

\* C10: on the FQDN path, for every configured entry of the "fqdn" list,
\* create issues an FQDN create call that carries the base fields and that
\* entry's interval, down_interval and autopopulate.
C10_FqdnCallCarriesEntry ==
    ( last.op = "create" /\ ~MatchString(last.cfg.address) )
    => \A i \in 1..Len(last.cfg.fqdn) :
          \E k \in CallsOf("CreateFQDNNode") :
              /\ last.calls[k].name = last.cfg.name
              /\ last.calls[k].node = ExpectedFqdnNode(last.cfg, i)
====
